---- MODULE Spec2Model ----
(***************************************************************************)
(* Model of View/UserControls/rename.py: process_directory walks a tree    *)
(* with os.walk and calls replace_in_file on every file whose name ends    *)
(* with '.xaml' or '.cs'.  Text is a sequence of code points, a file on    *)
(* disk a sequence of bytes, a file name a sequence of characters.         *)
(***************************************************************************)
EXTENDS Integers, Sequences, FiniteSets, TLC

VARIABLES
    root_dir,   \* process_directory's root_dir
    old,        \* the search string
    new,        \* the replacement string
    linesep,    \* os.linesep of the platform the script runs on
    files,      \* the paths (<<directory, file name>>) of the files of the tree
    fs,         \* path -> the bytes on disk
    orig,       \* path -> the bytes on disk when the current run started
    pc,         \* "walk" | "done" | "fatal"
    rerun,      \* TRUE once __main__ has been invoked a second time
    stack,      \* os.walk: directories still to list
    dirpath,    \* os.walk: the directory whose filenames are being iterated
    filenames,  \* the filenames of dirpath not yet iterated
    phase,      \* position inside replace_in_file: "loop" | "replace" | "opened" | "written"
    content,    \* replace_in_file's local variable content
    out,        \* standard output of the current run, a sequence of lines
    reads,      \* path -> times opened for reading in the current run
    opens_w,    \* path -> times opened for writing in the current run
    written,    \* paths whose write completed in the current run
    prev_written, \* the paths the first run wrote, once the script is run again
    processed,  \* paths handed to replace_in_file in the current run, in order
    listErr     \* an error of scandir was swallowed by os.walk (any run)

vars == <<root_dir, old, new, linesep, files, fs, orig, pc, rerun, stack, dirpath,
          filenames, phase, content, out, reads, opens_w, written, prev_written, processed, listErr>>

----------------------------------------------------------------------------
(* Bounds of the model *)

MaxLen == 3
NumFiles == 2

----------------------------------------------------------------------------
(* Text: code points, newline translation of text-mode open() *)

LF == 10
CR == 13

RECURSIVE SeqsUpTo(_, _)
SeqsUpTo(S, n) ==
    IF n = 0 THEN {<<>>}
    ELSE LET shorter == SeqsUpTo(S, n - 1)
         IN  shorter \cup {Append(s, x) : s \in {t \in shorter : Len(t) = n - 1}, x \in S}

\* s[n:], written so that s is evaluated once
Drop(s, n) == CHOOSE r \in {SubSeq(t, n + 1, Len(t)) : t \in {s}} : TRUE

StartsWith(s, p) == Len(s) >= Len(p) /\ SubSeq(s, 1, Len(p)) = p

\* open(filepath, 'r', encoding='utf-8').read() decodes strictly: a lead byte,
\* then its continuation bytes; overlong forms, surrogates and values above
\* U+10FFFF raise UnicodeDecodeError.
IsCont(b) == b >= 128 /\ b <= 191

\* the number of bytes the lead byte b1 announces, 0 when it is no lead byte
CharLen(b1) ==
    IF b1 < 128 THEN 1
    ELSE IF b1 >= 194 /\ b1 <= 223 THEN 2
    ELSE IF b1 >= 224 /\ b1 <= 239 THEN 3
    ELSE IF b1 >= 240 /\ b1 <= 244 THEN 4
    ELSE 0

\* b starts with one well-formed character
GoodChar(b) ==
    /\ CharLen(b[1]) > 0
    /\ Len(b) >= CharLen(b[1])
    /\ \A i \in 2..CharLen(b[1]) : IsCont(b[i])
    /\ (b[1] = 224 => b[2] >= 160)
    /\ (b[1] = 237 => b[2] <= 159)
    /\ (b[1] = 240 => b[2] >= 144)
    /\ (b[1] = 244 => b[2] <= 143)

\* the code point of the character b starts with
CodePoint(b) ==
    IF CharLen(b[1]) = 1 THEN b[1]
    ELSE IF CharLen(b[1]) = 2 THEN (b[1] - 192) * 64 + (b[2] - 128)
    ELSE IF CharLen(b[1]) = 3
         THEN (b[1] - 224) * 4096 + (b[2] - 128) * 64 + (b[3] - 128)
    ELSE (b[1] - 240) * 262144 + (b[2] - 128) * 4096 + (b[3] - 128) * 64 + (b[4] - 128)

\* b without its first character (b is evaluated once)
DropChar(b) == CHOOSE r \in {SubSeq(t, CharLen(t[1]) + 1, Len(t)) : t \in {b}} : TRUE

RECURSIVE DecodeFrom(_, _)
DecodeFrom(b, acc) ==
    IF b = <<>> THEN [ok |-> TRUE, text |-> acc]
    ELSE IF GoodChar(b) THEN DecodeFrom(DropChar(b), Append(acc, CodePoint(b)))
    ELSE [ok |-> FALSE, text |-> <<>>]

Utf8Decode(b) == DecodeFrom(b, <<>>)

EncodeChar(c) ==
    IF c < 128 THEN <<c>>
    ELSE IF c < 2048 THEN <<192 + (c \div 64), 128 + (c % 64)>>
    ELSE IF c < 65536 THEN <<224 + (c \div 4096), 128 + ((c \div 64) % 64), 128 + (c % 64)>>
    ELSE <<240 + (c \div 262144), 128 + ((c \div 4096) % 64),
           128 + ((c \div 64) % 64), 128 + (c % 64)>>

RECURSIVE Utf8Encode(_)
Utf8Encode(t) == IF t = <<>> THEN <<>> ELSE EncodeChar(t[1]) \o Utf8Encode(Tail(t))

\* newline=None on read: '\r\n' and a lone '\r' both become '\n'.
RECURSIVE TranslateIn(_)
TranslateIn(t) ==
    IF t = <<>> THEN <<>>
    ELSE IF t[1] = CR
         THEN IF Len(t) >= 2 /\ t[2] = LF
              THEN <<LF>> \o TranslateIn(Drop(t, 2))
              ELSE <<LF>> \o TranslateIn(Tail(t))
         ELSE <<t[1]>> \o TranslateIn(Tail(t))

\* newline=None on write: every '\n' becomes os.linesep.
RECURSIVE TranslateOut(_, _)
TranslateOut(t, sep) ==
    IF t = <<>> THEN <<>>
    ELSE (IF t[1] = LF THEN sep ELSE <<t[1]>>) \o TranslateOut(Tail(t), sep)

\* what f.read() returns, or the decode error
ReadText(bytes) ==
    LET d == Utf8Decode(bytes)
    IN  [ok |-> d.ok, text |-> IF d.ok THEN TranslateIn(d.text) ELSE <<>>]

\* the bytes f.write(content) leaves on disk once the file is closed
WriteBytes(text, sep) == Utf8Encode(TranslateOut(text, sep))

\* `old in content`
RECURSIVE Contains(_, _)
Contains(s, sub) ==
    \/ StartsWith(s, sub)
    \/ (s # <<>> /\ Contains(Tail(s), sub))

\* content.replace(old, new)
RECURSIVE ReplaceNonEmpty(_, _, _)
ReplaceNonEmpty(s, o, n) ==
    IF s = <<>> THEN <<>>
    ELSE IF StartsWith(s, o) THEN n \o ReplaceNonEmpty(Drop(s, Len(o)), o, n)
    ELSE <<s[1]>> \o ReplaceNonEmpty(Tail(s), o, n)

RECURSIVE Interleave(_, _)
Interleave(s, n) == IF s = <<>> THEN n ELSE n \o <<s[1]>> \o Interleave(Tail(s), n)

ReplaceFirstOnly(s, o, n) ==
    IF o = <<>> THEN n \o s
    ELSE IF ~Contains(s, o) THEN s
    ELSE LET i == CHOOSE k \in 1..Len(s) :
                      /\ StartsWith(Drop(s, k - 1), o)
                      /\ \A j \in 1..(k - 1) : ~StartsWith(Drop(s, j - 1), o)
         IN  SubSeq(s, 1, i - 1) \o n \o Drop(s, i - 1 + Len(o))

Replace(s, o, n) == IF o = <<>> THEN Interleave(s, n) ELSE ReplaceNonEmpty(s, o, n)

----------------------------------------------------------------------------
(* The file tree *)

Dirs == {"r", "r/a", "r/a/b"}

Subdirs(d) ==
    IF d = "r" THEN {"r/a"} ELSE IF d = "r/a" THEN {"r/a/b"} ELSE {}

EndsWith(s, suf) ==
    Len(s) >= Len(suf) /\ SubSeq(s, Len(s) - Len(suf) + 1, Len(s)) = suf

Lower(c) == IF c = "C" THEN "c" ELSE IF c = "S" THEN "s" ELSE c

QualifiesAnyCase(filename) ==
    LET low == [i \in 1..Len(filename) |-> Lower(filename[i])]
    IN  \/ EndsWith(low, <<".", "x", "a", "m", "l">>)
        \/ EndsWith(low, <<".", "c", "s">>)

\* filename.endswith('.xaml') or filename.endswith('.cs')
Qualifies(filename) ==
    \/ EndsWith(filename, <<".", "x", "a", "m", "l">>)
    \/ EndsWith(filename, <<".", "c", "s">>)

\* os.path.join(dirpath, filename)
Join(d, filename) == <<d, filename>>

FilesIn(d) == {f \in files : f[1] = d}

Perms(S) ==
    {p \in [1..Cardinality(S) -> S] : \A i, j \in 1..Cardinality(S) : i # j => p[i] # p[j]}

Replaced(f) == [tag |-> "Replaced in: ", path |-> f]
Skipped(f)  == [tag |-> "Skipped (decode error): ", path |-> f]

----------------------------------------------------------------------------
(* Initial states: the trees, strings and platforms the script is run on *)

Names ==
    { <<"a", ".", "c", "s">>,
      <<"m", ".", "x", "a", "m", "l">>,
      <<"A", ".", "C", "S">>,
      <<"x", ".", "c", "s", ".", "b", "a", "k">> }

LineSeps == { <<LF>>, <<CR, LF>> }

\* "a\n" (holds the search string), "e-acute" (does not), and 'a' followed by
\* a lead byte with no continuation (not UTF-8)
TreeContents == { <<97, 10>>, <<195, 169>>, <<97, 195>> }

TextBytes == {97, 10, 13}

\* the directories that hold files: the root and the deepest one ("r/a" is
\* walked through and holds none)
FileDirs == {"r", "r/a/b"}

OldSet == { <<97>>, <<97, 97>>, <<10>>, <<>> }
NewSet == { <<>>, <<98>>, <<97, 97>>, <<13>> }

Idle ==
    /\ pc = "walk"
    /\ rerun = FALSE
    /\ stack = <<root_dir>>
    /\ dirpath = root_dir
    /\ filenames = <<>>
    /\ phase = "loop"
    /\ content = <<>>
    /\ out = <<>>
    /\ reads = [f \in files |-> 0]
    /\ opens_w = [f \in files |-> 0]
    /\ written = {}
    /\ prev_written = {}
    /\ processed = <<>>
    /\ listErr = FALSE
    /\ orig = fs

\* a tree of NumFiles files, searched for "a" to be replaced by "b"
\* on a platform whose line separator is '\n'
InitTree ==
    /\ root_dir = "r"
    /\ old = <<97>>
    /\ new = <<98>>
    /\ linesep = <<LF>>
    /\ files \in {S \in SUBSET (FileDirs \X Names) : Cardinality(S) = NumFiles}
    /\ fs \in [files -> TreeContents]
    /\ Idle

\* one candidate file of any contents up to MaxLen bytes, any of the strings,
\* either platform
InitText ==
    /\ root_dir = "r"
    /\ old \in OldSet
    /\ new \in NewSet
    /\ linesep \in LineSeps
    /\ files = {Join("r", <<"a", ".", "c", "s">>)}
    /\ fs \in [files -> SeqsUpTo(TextBytes, MaxLen)]
    /\ Idle

Init == InitTree \/ InitText

----------------------------------------------------------------------------
(* os.walk(root_dir) *)

InLoop == pc = "walk" /\ phase = "loop"

WalkDirAgain ==
    /\ InLoop /\ filenames = <<>> /\ stack # <<>>
    /\ \E names \in Perms(FilesIn(Head(stack))), subs \in Perms(Subdirs(Head(stack))) :
          /\ dirpath' = Head(stack)
          /\ filenames' = [i \in 1..Len(names) |-> names[i][2]] \o [i \in 1..Len(names) |-> names[i][2]]
          /\ stack' = subs \o Tail(stack)
    /\ UNCHANGED <<root_dir, old, new, linesep, files, fs, orig, pc, rerun, phase, content,
                   out, reads, opens_w, written, prev_written, processed, listErr>>

\* os.walk lists the next directory: its filenames and its subdirectories,
\* in the order scandir happens to give them
WalkDir ==
    /\ InLoop /\ filenames = <<>> /\ stack # <<>>
    /\ \E names \in Perms(FilesIn(Head(stack))), subs \in Perms(Subdirs(Head(stack))) :
          /\ dirpath' = Head(stack)
          /\ filenames' = [i \in 1..Len(names) |-> names[i][2]]
          /\ stack' = subs \o Tail(stack)
    /\ UNCHANGED <<root_dir, old, new, linesep, files, fs, orig, pc, rerun, phase, content,
                   out, reads, opens_w, written, prev_written, processed, listErr>>

\* scandir raises OSError: os.walk (onerror=None) ignores it and yields
\* nothing for the directory
WalkDirError ==
    /\ InLoop /\ filenames = <<>> /\ stack # <<>>
    /\ stack' = Tail(stack)
    /\ listErr' = TRUE
    /\ UNCHANGED <<root_dir, old, new, linesep, files, fs, orig, pc, rerun, dirpath,
                   filenames, phase, content, out, reads, opens_w, written, prev_written, processed>>

\* the generator is exhausted: process_directory returns
WalkEnd ==
    /\ InLoop /\ filenames = <<>> /\ stack = <<>>
    /\ pc' = "done"
    /\ UNCHANGED <<root_dir, old, new, linesep, files, fs, orig, rerun, stack, dirpath,
                   filenames, phase, content, out, reads, opens_w, written, prev_written, processed, listErr>>

\* a filename that ends with neither suffix: next iteration
SkipFilename ==
    /\ InLoop /\ filenames # <<>>
    /\ ~Qualifies(Head(filenames))
    /\ filenames' = Tail(filenames)
    /\ UNCHANGED <<root_dir, old, new, linesep, files, fs, orig, pc, rerun, stack, dirpath,
                   phase, content, out, reads, opens_w, written, prev_written, processed, listErr>>

----------------------------------------------------------------------------
(* replace_in_file(filepath, old, new) *)

Candidate == InLoop /\ filenames # <<>> /\ Qualifies(Head(filenames))

filepath == Join(dirpath, Head(filenames))

\* the file is read and decoded; without the search string the call returns
ReadFile ==
    /\ Candidate
    /\ \E r \in {ReadText(fs[filepath])} :
          /\ r.ok
          /\ IF Contains(r.text, old)
             THEN /\ content' = Replace(r.text, old, new)
                  /\ phase' = "replace"
                  /\ UNCHANGED filenames
             ELSE /\ filenames' = Tail(filenames)
                  /\ UNCHANGED <<content, phase>>
    /\ reads' = [reads EXCEPT ![filepath] = @ + 1]
    /\ processed' = Append(processed, filepath)
    /\ UNCHANGED <<root_dir, old, new, linesep, files, fs, orig, pc, rerun, stack, dirpath,
                   out, opens_w, written, prev_written, listErr>>

DecodeErrorAborts ==
    /\ Candidate
    /\ \E r \in {ReadText(fs[filepath])} : ~r.ok
    /\ reads' = [reads EXCEPT ![filepath] = @ + 1]
    /\ processed' = Append(processed, filepath)
    /\ out' = Append(out, Skipped(filepath))
    /\ filenames' = <<>>
    /\ stack' = <<>>
    /\ UNCHANGED <<root_dir, old, new, linesep, files, fs, orig, pc, rerun, dirpath,
                   phase, content, opens_w, written, prev_written, listErr>>

\* except UnicodeDecodeError: print the skip line and return
DecodeError ==
    /\ Candidate
    /\ \E r \in {ReadText(fs[filepath])} : ~r.ok
    /\ reads' = [reads EXCEPT ![filepath] = @ + 1]
    /\ processed' = Append(processed, filepath)
    /\ out' = Append(out, Skipped(filepath))
    /\ filenames' = Tail(filenames)
    /\ UNCHANGED <<root_dir, old, new, linesep, files, fs, orig, pc, rerun, stack, dirpath,
                   phase, content, opens_w, written, prev_written, listErr>>

Fatal ==
    /\ pc' = "fatal"
    /\ UNCHANGED <<root_dir, old, new, linesep, files, orig, rerun, stack, dirpath,
                   filenames, phase, content, out, reads, opens_w, written, prev_written, listErr>>

ReadErrorIgnored ==
    /\ Candidate
    /\ processed' = Append(processed, filepath)
    /\ filenames' = Tail(filenames)
    /\ UNCHANGED <<root_dir, old, new, linesep, files, fs, orig, pc, rerun, stack, dirpath,
                   phase, content, out, reads, opens_w, written, prev_written, listErr>>

\* open(filepath, 'r') raises OSError (permission denied, the file is gone):
\* nothing catches it
ReadError ==
    /\ Candidate
    /\ processed' = Append(processed, filepath)
    /\ Fatal
    /\ UNCHANGED fs

OpenForAppend ==
    /\ pc = "walk" /\ phase = "replace"
    /\ opens_w' = [opens_w EXCEPT ![filepath] = @ + 1]
    /\ phase' = "opened"
    /\ UNCHANGED <<root_dir, old, new, linesep, files, fs, orig, pc, rerun, stack, dirpath,
                   filenames, content, out, reads, written, prev_written, processed, listErr>>

\* open(filepath, 'w') truncates the file
OpenForWrite ==
    /\ pc = "walk" /\ phase = "replace"
    /\ fs' = [fs EXCEPT ![filepath] = <<>>]
    /\ opens_w' = [opens_w EXCEPT ![filepath] = @ + 1]
    /\ phase' = "opened"
    /\ UNCHANGED <<root_dir, old, new, linesep, files, orig, pc, rerun, stack, dirpath,
                   filenames, content, out, reads, written, prev_written, processed, listErr>>

\* open(filepath, 'w') raises OSError: the file is as it was
OpenForWriteError ==
    /\ pc = "walk" /\ phase = "replace"
    /\ Fatal
    /\ UNCHANGED <<fs, processed>>

\* f.write(content) and the close of the with block: the bytes follow what
\* the file holds since it was opened
WriteFile ==
    /\ pc = "walk" /\ phase = "opened"
    /\ fs' = [fs EXCEPT ![filepath] = @ \o WriteBytes(content, linesep)]
    /\ written' = written \cup {filepath}
    /\ phase' = "written"
    /\ UNCHANGED <<root_dir, old, new, linesep, files, orig, pc, rerun, stack, dirpath,
                   filenames, content, out, reads, opens_w, prev_written, processed, listErr>>

\* the write or the flush at close raises OSError (disk full): some prefix of
\* the bytes reached the disk
WriteError ==
    /\ pc = "walk" /\ phase = "opened"
    /\ \E k \in 0..Len(WriteBytes(content, linesep)) :
          /\ k < Len(WriteBytes(content, linesep)) \/ k = 0
          /\ fs' = [fs EXCEPT ![filepath] = @ \o SubSeq(WriteBytes(content, linesep), 1, k)]
    /\ Fatal
    /\ UNCHANGED processed

PrintReplacedTwice ==
    /\ pc = "walk" /\ phase = "written"
    /\ out' = out \o <<Replaced(filepath), Replaced(filepath)>>
    /\ phase' = "loop"
    /\ filenames' = Tail(filenames)
    /\ UNCHANGED <<root_dir, old, new, linesep, files, fs, orig, pc, rerun, stack, dirpath,
                   content, reads, opens_w, written, prev_written, processed, listErr>>

\* print(f"Replaced in: {filepath}") and the return to the loop
PrintReplaced ==
    /\ pc = "walk" /\ phase = "written"
    /\ out' = Append(out, Replaced(filepath))
    /\ phase' = "loop"
    /\ filenames' = Tail(filenames)
    /\ UNCHANGED <<root_dir, old, new, linesep, files, fs, orig, pc, rerun, stack, dirpath,
                   content, reads, opens_w, written, prev_written, processed, listErr>>

----------------------------------------------------------------------------
(* __main__ *)

\* the script is run again on the tree the last run left
Rerun ==
    /\ pc = "done" /\ ~rerun
    /\ rerun' = TRUE
    /\ pc' = "walk"
    /\ stack' = <<root_dir>>
    /\ dirpath' = root_dir
    /\ orig' = fs
    /\ out' = <<>>
    /\ reads' = [f \in files |-> 0]
    /\ opens_w' = [f \in files |-> 0]
    /\ written' = {}
    /\ prev_written' = written
    /\ processed' = <<>>
    /\ UNCHANGED <<root_dir, old, new, linesep, files, fs, filenames, phase, content, listErr>>

Next ==
    \/ WalkDir
    \/ WalkDirError
    \/ WalkEnd
    \/ SkipFilename
    \/ ReadFile
    \/ DecodeError
    \/ ReadError
    \/ OpenForWrite
    \/ OpenForWriteError
    \/ WriteFile
    \/ WriteError
    \/ PrintReplaced
    \/ Rerun

Spec == Init /\ [][Next]_vars

----------------------------------------------------------------------------
(* Vocabulary of the properties *)

\* a name made of some prefix followed by exactly '.xaml' or '.cs'
IsCandidateName(name) ==
    \E k \in 0..Len(name) :
        \/ name = SubSeq(name, 1, k) \o <<".", "c", "s">>
        \/ name = SubSeq(name, 1, k) \o <<".", "x", "a", "m", "l">>

Decodes(bytes) == Utf8Decode(bytes).ok
Decoded(bytes) == Utf8Decode(bytes).text

IsPrefix(p, s) == Len(p) <= Len(s) /\ SubSeq(s, 1, Len(p)) = p

Count(seq, x) == Cardinality({i \in 1..Len(seq) : seq[i] = x})

Pos(seq, x) == CHOOSE i \in 1..Len(seq) : seq[i] = x

IsReplacedLine(l) == l.tag = "Replaced in: "
IsSkippedLine(l) == l.tag = "Skipped (decode error): "

\* the bytes replace_in_file leaves in a file of the given bytes when no
\* error cuts it short
Rewritten(bytes) ==
    IF ReadText(bytes).ok /\ Contains(ReadText(bytes).text, old)
    THEN WriteBytes(Replace(ReadText(bytes).text, old, new), linesep)
    ELSE bytes

Terminated == pc \in {"done", "fatal"}

\* the run ended and met no I/O error at all (none fatal, none swallowed)
Completed == pc = "done" /\ ~listErr

\* the file a call of replace_in_file is rewriting
Rewriting(f) == phase \in {"replace", "opened", "written"} /\ f = filepath

----------------------------------------------------------------------------
(* C1 *)

\* C1: after a run that completed without error, every '.xaml'/'.cs' file at
\* any depth whose contents decode as UTF-8 and contain old holds, decoded,
\* exactly the left-to-right non-overlapping substitution of old by new
\* applied to its original decoded contents.
C1_SubstitutedEverywhere ==
    (Completed /\ old # <<>>) =>
        \A f \in files :
            (IsCandidateName(f[2]) /\ Decodes(orig[f]) /\ Contains(Decoded(orig[f]), old))
                => /\ Decodes(fs[f])
                   /\ Decoded(fs[f]) = Replace(Decoded(orig[f]), old, new)

----------------------------------------------------------------------------
(* C2 *)

\* C2: a file whose name does not end with exactly '.xaml' or '.cs' is never
\* opened for reading or writing and its bytes stay as they were, even when
\* it contains the search string; 'A.CS' and 'x.cs.bak' are such names.
C2_OthersNeverOpened ==
    \A f \in files :
        ~IsCandidateName(f[2])
            => reads[f] = 0 /\ opens_w[f] = 0 /\ fs[f] = orig[f]

\* a completed run that rewrote a candidate and left 'A.CS', which holds the
\* search string, alone
C2_Witness ==
    /\ Completed
    /\ written # {}
    /\ \E f \in files :
          /\ f[2] = <<"A", ".", "C", "S">>
          /\ ~IsCandidateName(f[2])
          /\ Decodes(fs[f]) /\ Contains(Decoded(fs[f]), old)

----------------------------------------------------------------------------
(* C3 *)

\* C3: a candidate file whose decoded contents do not contain the search
\* string is never opened for writing, keeps its bytes and gets no line on
\* standard output.
C3_NoMatchUntouched ==
    \A f \in files :
        (IsCandidateName(f[2]) /\ Decodes(orig[f]) /\ ~Contains(Decoded(orig[f]), old))
            => /\ opens_w[f] = 0
               /\ fs[f] = orig[f]
               /\ \A i \in 1..Len(out) : out[i].path # f

----------------------------------------------------------------------------
(* C4 *)

\* C4: a candidate file that is not valid UTF-8 gets exactly one 'Skipped
\* (decode error)' line when it is read, is never opened for writing and keeps
\* its bytes; the failure raises no error, and the walk goes on: a run that
\* completes has read every candidate once and left every other candidate as
\* replace_in_file leaves it.
C4_DecodeErrorSkipped ==
    /\ \A f \in files :
          (IsCandidateName(f[2]) /\ ~Decodes(orig[f]))
              => /\ fs[f] = orig[f]
                 /\ opens_w[f] = 0
                 /\ Count(out, Skipped(f)) = reads[f]
                 /\ Count(out, Replaced(f)) = 0
                 /\ (reads[f] >= 1 /\ processed[Len(processed)] = f => pc # "fatal")
    /\ Completed =>
          \A g \in files :
              IsCandidateName(g[2]) => reads[g] = 1 /\ fs[g] = Rewritten(orig[g])

\* a completed run that skipped an undecodable file and afterwards rewrote
\* another candidate
C4_Witness ==
    /\ Completed
    /\ \E f, g \in files :
          /\ IsCandidateName(f[2]) /\ ~Decodes(orig[f])
          /\ Count(out, Skipped(f)) = 1
          /\ g \in written
          /\ Pos(processed, f) < Pos(processed, g)

----------------------------------------------------------------------------
(* C5 *)

NoWriteInThisRun ==
    /\ \A f \in files : opens_w[f] = 0
    /\ \A i \in 1..Len(out) : ~IsReplacedLine(out[i])

\* C5 as stated: for every tree and every old and new, a second run after a
\* completed first run writes no file and prints no 'Replaced in' line.
C5_SecondRunWritesNothing ==
    (rerun /\ ~listErr /\ old # <<>>) => NoWriteInThisRun

\* no occurrence of o can overlap a copy of n put into a text: both are
\* non-empty, neither holds the other, and no end of one is a start of the other
NoOverlap(o, n) ==
    /\ o # <<>> /\ n # <<>>
    /\ ~Contains(n, o) /\ ~Contains(o, n)
    /\ \A k \in 1..Len(n) :
          /\ ~EndsWith(o, SubSeq(n, 1, k))
          /\ ~StartsWith(o, SubSeq(n, Len(n) - k + 1, Len(n)))

HasNoCR(t) == \A i \in 1..Len(t) : t[i] # CR

\* C5 amended: the second run writes nothing when new holds no carriage
\* return and no occurrence of old can overlap an inserted copy of new.
C5_SecondRunWritesNothingNoOverlap ==
    (rerun /\ ~listErr /\ NoOverlap(old, new) /\ HasNoCR(new)) => NoWriteInThisRun

\* a second run that completed over a file the first run rewrote
C5_Witness ==
    /\ rerun /\ Completed
    /\ NoOverlap(old, new) /\ HasNoCR(new)
    /\ \E f \in prev_written : reads[f] = 1 /\ Contains(ReadText(fs[f]).text, new)

----------------------------------------------------------------------------
(* C6 *)

\* C6: the bytes of a rewritten file are exactly the UTF-8 encoding of the
\* substituted string, with no newline translation on read or on write.
C6_WrittenBytesExact ==
    \A f \in written : fs[f] = Utf8Encode(Replace(Decoded(orig[f]), old, new))

----------------------------------------------------------------------------
(* C7 *)

\* an error met while opening a file propagated: the run is over
FileErrorsAreFatal ==
    \A i \in 1..Len(processed) : reads[processed[i]] = 0 => pc = "fatal"

\* what was written before the error stays written
NoRollback ==
    pc = "fatal" => \A f \in written : fs[f] = Rewritten(orig[f])

\* the step that raises the error prints nothing, opens nothing and touches
\* no file but the one being written
ErrorStep ==
    (pc = "walk" /\ pc' = "fatal")
        => /\ out' = out /\ reads' = reads /\ opens_w' = opens_w /\ written' = written
           /\ \A f \in files : ~Rewriting(f) => fs'[f] = fs[f]

\* C7 as stated: every I/O error but a decode failure, the failure to list a
\* directory included, ends the run at once.
C7_EveryErrorIsFatal ==
    listErr => pc = "fatal"

\* C7 amended: an I/O error raised by opening, reading or writing a file ends
\* the run at once: nothing happens after it, the failing step prints
\* nothing, and the files written before it keep their new contents.
C7_FileErrorEndsRun ==
    /\ [](FileErrorsAreFatal /\ NoRollback)
    /\ [][pc # "fatal" /\ ErrorStep]_vars

\* a run ended by an error on its second candidate, after it rewrote the first
C7_Witness ==
    /\ pc = "fatal"
    /\ written # {}
    /\ Len(processed) = 2
    /\ \A f \in written : fs[f] # orig[f]

----------------------------------------------------------------------------
(* C8 *)

\* C8 as stated: at every moment every candidate file holds its original
\* bytes or its fully substituted bytes.
C8_OriginalOrSubstituted ==
    \A f \in files :
        IsCandidateName(f[2]) => fs[f] = orig[f] \/ fs[f] = Rewritten(orig[f])

\* C8 amended: every candidate holds its original or its fully substituted
\* bytes, but for the one file whose rewrite has begun and is not finished
\* (or was cut by a fatal error), which holds a prefix of the substituted bytes.
C8_OriginalSubstitutedOrPrefix ==
    \A f \in files :
        IsCandidateName(f[2]) =>
            \/ fs[f] = orig[f]
            \/ fs[f] = Rewritten(orig[f])
            \/ /\ phase = "opened" /\ f = filepath
               /\ IsPrefix(fs[f], Rewritten(orig[f]))

\* a run ended by a write error that left a non-empty part of the new bytes
C8_Witness ==
    /\ pc = "fatal" /\ phase = "opened"
    /\ fs[filepath] # <<>>
    /\ fs[filepath] # orig[filepath]
    /\ fs[filepath] # Rewritten(orig[filepath])

----------------------------------------------------------------------------
(* C9 *)

\* C9: standard output holds one 'Replaced in' line per file the run wrote,
\* printed after the write completed, one 'Skipped (decode error)' line per
\* candidate that failed to decode, nothing else, in processing order.
C9_OutputLines ==
    /\ \A i \in 1..Len(out) :
          /\ IsReplacedLine(out[i]) \/ IsSkippedLine(out[i])
          /\ Count(out, out[i]) = 1
          /\ IsReplacedLine(out[i]) => out[i].path \in written
          /\ IsSkippedLine(out[i]) =>
                /\ IsCandidateName(out[i].path[2])
                /\ ~Decodes(orig[out[i].path])
                /\ reads[out[i].path] = 1
    /\ \A f \in written :
          Count(out, Replaced(f)) = 1 \/ (phase = "written" /\ f = filepath)
    /\ \A f \in files :
          (IsCandidateName(f[2]) /\ ~Decodes(orig[f]) /\ reads[f] >= 1)
              => Count(out, Skipped(f)) = 1
    /\ \A i, j \in 1..Len(out) :
          i < j => Pos(processed, out[i].path) < Pos(processed, out[j].path)
    /\ Terminated => \A f \in written : Count(out, Replaced(f)) = 1

\* a completed run that printed a skip line and then a replace line
C9_Witness ==
    /\ Completed
    /\ Len(out) = 2
    /\ IsSkippedLine(out[1]) /\ IsReplacedLine(out[2])

----------------------------------------------------------------------------
(* C10 *)

RECURSIVE TreeSize(_)
TreeSize(d) ==
    LET subs == Subdirs(d)
        RECURSIVE Sum(_)
        Sum(S) == IF S = {} THEN 0
                  ELSE LET x == CHOOSE y \in S : TRUE IN TreeSize(x) + Sum(S \ {x})
    IN  1 + Sum(subs)

RECURSIVE StackSize(_)
StackSize(st) == IF st = <<>> THEN 0 ELSE TreeSize(Head(st)) + StackSize(Tail(st))

PhaseRank ==
    IF phase = "loop" THEN 3 ELSE IF phase = "replace" THEN 2
    ELSE IF phase = "opened" THEN 1 ELSE 0

\* the work a run has left
Remaining ==
    (4 * Cardinality(files) + 5) * StackSize(stack)
        + 4 * Len(filenames) + PhaseRank + (IF pc = "walk" THEN 1 ELSE 0)

====
